---- MODULE Spec2Model ----
(***************************************************************************)
(* Model of the voice-recording backend's streaming core:                  *)
(*   backend/app/websocket_manager.py  WebSocketManager                    *)
(*   backend/app/main.py               websocket_endpoint,                 *)
(*                                     handle_audio_chunk                  *)
(*   backend/app/transcription.py      TranscriptionService                *)
(*                                                                         *)
(* The server is one asyncio event loop: the code between two awaits of a  *)
(* coroutine runs atomically, so every action below is the code from one   *)
(* suspension point (accept, receive_json, send_json, the engine call) to  *)
(* the next.  The transport is external: a client may go away at any time, *)
(* after which accept and every write on its websocket raise and           *)
(* receive_json raises WebSocketDisconnect.                                *)
(***************************************************************************)
EXTENDS Integers, Sequences, FiniteSets, TLC

\* ------------------------------------------------------------------ bounds
\* Inbound messages the clients send, over all connections.
MaxMsgs == 2
\* Sub-segments the engine returns for one chunk.
MaxSegs == 2

\* The websocket objects (one per physical connection).  client_id is
\* f"client_{id(websocket)}" (main.py:97): where the reuse of an id is not
\* the subject, the id of websocket c is written c.
Conns == {"A", "B", "C"}
\* Memory addresses a websocket object can be allocated at: id(websocket).
Addrs == {"x1", "x2"}
\* The keys active_connections can have.
Keys == Conns \cup Addrs
\* Connections whose clients send messages in the handler specification.
Talkers == {"A", "B"}
Sessions == {"s1", "s2"}
\* Tasks other than the connection handlers that call the manager.
Tasks == {"t1"}

None == "none"
\* A deleted entry of a dict's entry array.
Tomb == "tomb"

\* Fixed-point scale of confidences and of exp: 1.0 is Scale.
Scale == 100 * 100
\* Log-probabilities are in tenths: -10 is -1.0.
LogProbs == {-10, 0}
\* The log-probabilities of a transcribe_chunk call looked at alone, in
\* tenths: from -5.0 to 5.0.
AnyLogProbs == {-50, -10, -3, 0, 3, 10, 50}
\* A segment's text: whitespace only, or words.
SegTexts == {" ", "hi"}
\* What a client may put in audioData: base64 of 16-bit PCM, base64 of an odd
\* number of bytes, a string with incorrect padding, or nothing (null).
Payloads == {"pcm", "odd", "badpad", "missing"}

VARIABLES
  \* websocket_endpoint / handle_audio_chunk, per connection
  pc,            \* where the handler coroutine is suspended
  client_id,     \* the handler's client_id (line 97), the id connect is given
  cur,           \* the inbound audio_chunk being handled (chunkId, payload)
  res,           \* (transcript_text, confidence) of the current chunk
  nrecv,         \* inbound messages read so far on the connection
  log,           \* history: per connection, what the handler read and wrote
  inflight,      \* history: transcribe_chunk calls entered and not yet left
  loopBusy,      \* the handler whose synchronous engine call holds the loop
  alive,         \* transport: the client is still there
  \* TranscriptionService
  initialized,
  tc,            \* a transcribe_chunk call looked at alone: its locals and result
  \* WebSocketManager
  acEntries,     \* active_connections: the dict's entries in insertion order
  handle,        \* active_connections: the websocket stored under each key
  session_clients,
  \* the interpreter
  freed,         \* the websocket objects that were deallocated
  \* callers of the manager other than the handlers
  task,
  \* history: the last direct manager call
  last

vars == <<pc, client_id, cur, res, nrecv, log, inflight, loopBusy, alive,
          initialized, tc, acEntries, handle, session_clients, freed, task,
          last>>

hvars == <<pc, client_id, cur, res, nrecv, log, inflight, loopBusy, tc>>
mvars == <<acEntries, handle, session_clients>>

\* ------------------------------------------------------- helper operators
RECURSIVE SeqsUpTo(_, _)
SeqsUpTo(S, n) ==
  IF n = 0 THEN {<<>>}
  ELSE LET shorter == SeqsUpTo(S, n - 1)
       IN  shorter \cup {Append(s, x) : s \in {q \in shorter : Len(q) = n - 1}, x \in S}

Range(s) == {s[i] : i \in 1..Len(s)}

Count(s, x) == Cardinality({i \in 1..Len(s) : s[i] = x})

\* ------------------------------------------------- WebSocketManager: data
\* The keys of active_connections.
ActiveKeys == Range(acEntries) \ {Tomb}

\* active_connections[k] = websocket: a present key keeps its entry, a new
\* key is appended to the entries.
DictSet(entries, k) ==
  IF k \in Range(entries) THEN entries ELSE Append(entries, k)

\* del active_connections[k]: the entry becomes a hole.
DictDel(entries, k) ==
  [i \in 1..Len(entries) |-> IF entries[i] = k THEN Tomb ELSE entries[i]]

\* A disconnect that deletes the key without looking.
DeletesUnseen(entries, k) == TRUE

\* `if client_id in self.active_connections`, line 43.
KeyPresent(entries, k) == k \in Range(entries)

\* disconnect, lines 43-45: the key is deleted when present.
DisconnectAC(entries, k) ==
  IF KeyPresent(entries, k) THEN DictDel(entries, k) ELSE entries

\* A disconnect that stops at the first session it finds the client in.
DisconnectFirstSessionOnly(sc, k) ==
  IF \E s \in DOMAIN sc : k \in sc[s]
  THEN LET s0 == CHOOSE s \in DOMAIN sc : k \in sc[s]
       IN  [sc EXCEPT ![s0] = @ \ {k}]
  ELSE sc

\* active_connections[k] = websocket, line 36: the value stored under k.
HandleSet(h, k, w) == [h EXCEPT ![k] = w]

\* del active_connections[k], line 44, when the key is present.
HandleDel(h, k) == [h EXCEPT ![k] = None]

\* disconnect, lines 48-50: the client leaves every session set.
DisconnectSC(sc, k) ==
  [s \in DOMAIN sc |-> sc[s] \ {k}]

\* `del active_connections[k]` raises KeyError for an absent key.
DelRaises(entries, k) == k \notin Range(entries)

\* `if client_id in clients`, line 49.
MemberPresent(clients, k) == k \in clients

\* `clients.remove(k)` raises KeyError for a set k is not in.
RemoveRaises(clients, k) == k \notin clients

\* disconnect raises KeyError: `del` (line 44) is reached for an absent key,
\* or `clients.remove` (line 50) for a set the client is not in.  Line 49
\* tests the membership before line 50 removes.
DisconnectRaises(entries, sc, k) ==
  \/ KeyPresent(entries, k) /\ DelRaises(entries, k)
  \/ \E s \in DOMAIN sc : MemberPresent(sc[s], k) /\ RemoveRaises(sc[s], k)

\* register_session_client, lines 92-95.
RegisterSC(sc, s, k) ==
  IF s \in DOMAIN sc
  THEN [sc EXCEPT ![s] = @ \cup {k}]
  ELSE sc @@ (s :> {k})

\* ---------------------------------------------------- TranscriptionService
IsSpace(tok) == tok \in {"", " "}

\* str.strip() on the joined text, kept as the sequence of segment texts:
\* leading and trailing whitespace goes, "" is the empty sequence.
RECURSIVE StripLeft(_)
StripLeft(toks) ==
  IF toks = <<>> THEN <<>>
  ELSE IF IsSpace(Head(toks)) THEN StripLeft(Tail(toks)) ELSE toks

RECURSIVE StripRight(_)
StripRight(toks) ==
  IF toks = <<>> THEN <<>>
  ELSE IF IsSpace(toks[Len(toks)]) THEN StripRight(SubSeq(toks, 1, Len(toks) - 1))
       ELSE toks

Strip(toks) == StripRight(StripLeft(toks))

RECURSIVE SumLogProb(_)
SumLogProb(segs) ==
  IF segs = <<>> THEN 0 ELSE Head(segs).lp + SumLogProb(Tail(segs))

\* exp(num/den) in units of 1/Scale for |num| <= den: the Taylor series.
RECURSIVE ExpSeries(_, _, _, _)
ExpSeries(num, den, k, term) ==
  IF k > 12 \/ term = 0 THEN 0
  ELSE term + ExpSeries(num, den, k + 1, (term * num) \div (den * k))

\* exp(num/den) in units of 1/Scale, den > 0; saturates at 4 * Scale.
RECURSIVE ExpFix(_, _)
ExpFix(num, den) ==
  IF num > den \/ -num > den
  THEN LET h == ExpFix(num, 2 * den)
       IN  IF h >= 2 * Scale THEN 4 * Scale ELSE (h * h) \div Scale
  ELSE ExpSeries(num, den, 1, Scale)

Min(a, b) == IF a < b THEN a ELSE b
Max(a, b) == IF a > b THEN a ELSE b

\* A transcribe_chunk that leaves out the clamp.
ConfidenceUnclamped(segs) ==
  IF Len(segs) > 0 THEN ExpFix(SumLogProb(segs), 10 * Len(segs)) ELSE 0

\* transcribe_chunk, lines 120-127; log-probabilities are in tenths.
Confidence(segs) ==
  IF Len(segs) > 0
  THEN Max(0, Min(Scale, ExpFix(SumLogProb(segs), 10 * Len(segs))))
  ELSE 0

\* _bytes_to_audio_array: np.frombuffer(..., int16) raises on an odd length.
BytesToAudioArray(bytes) == IF bytes = "odd" THEN "raise" ELSE "array"

\* What the engine can do with one chunk: raise, or return sub-segments.
Segments == [text : SegTexts, lp : LogProbs]
EngineOutcomes ==
  {[raises |-> TRUE, segs |-> <<>>]}
    \cup {[raises |-> FALSE, segs |-> q] : q \in SeqsUpTo(Segments, MaxSegs)}

\* transcribe_chunk, lines 91-135, for an initialized service: the pair
\* (transcript_text, confidence).  Everything raised inside is swallowed
\* (lines 133-135).  failed and nseg are history: whether the engine path
\* raised, and the sub-segments it returned.
TranscribeChunk(bytes, outcome) ==
  IF BytesToAudioArray(bytes) = "raise" \/ outcome.raises
  THEN [text |-> <<>>, conf |-> 0, failed |-> TRUE, nseg |-> 0]
  ELSE [text |-> Strip([i \in 1..Len(outcome.segs) |-> outcome.segs[i].text]),
        conf |-> Confidence(outcome.segs),
        failed |-> FALSE, nseg |-> Len(outcome.segs)]

\* The results transcribe_chunk can return for the decoded bytes.
ChunkResults ==
  [b \in {"pcm", "odd"} |-> {TranscribeChunk(b, o) : o \in EngineOutcomes}]

\* --------------------------------------------------- handle_audio_chunk
\* base64.b64decode(audio_data_b64), line 149: the bytes, or it raises.
B64Decode(p) ==
  CASE p = "pcm" -> "pcm"
    [] p = "odd" -> "odd"
    [] p = "badpad" -> "raise"
    [] p = "missing" -> "raise"

\* A test for None instead of for an empty text.
SendsAnyText(text) == TRUE

\* `if transcript_text:`, line 170.
ShouldSendTranscript(text) == text # <<>>

Ev(e, k) == [ev |-> e, id |-> k, conf |-> 0, nseg |-> 0, speech |-> FALSE]

NoChunk == [chunkId |-> 0, bytes |-> None]
NoRes == [text |-> <<>>, conf |-> 0]

RECURSIVE SumOver(_, _)
SumOver(f, S) ==
  IF S = {} THEN 0
  ELSE LET x == CHOOSE y \in S : TRUE IN f[x] + SumOver(f, S \ {x})

\* Inbound messages read so far on all connections.
Received == SumOver(nrecv, Conns)

\* ------------------------------------------------ callers of the manager
\* A task's record: the manager coroutine it runs (op), whether that is
\* suspended in a write (st = "run"), has returned or has raised, the
\* connection being written to, the coroutine's locals (the dict iterator
\* di_*, the set iterator si_*, disconnected_clients) and history: the
\* connections written to, the members of the swept collection (snap) and
\* the registered connections (snapKeys) when the call was made, and whether another coroutine changed
\* them while this one was suspended.
IdleTask ==
  [op |-> "idle", st |-> "idle", target |-> None, sess |-> None,
   di_used |-> 0, di_pos |-> 1, di_len |-> 0,
   si_used |-> 0, si_behind |-> {},
   disconnected_clients |-> <<>>,
   delivered |-> <<>>, snap |-> {}, snapKeys |-> {}, mut |-> FALSE]

NoCall == [op |-> None, c |-> None, nsess |-> 0, wasActive |-> FALSE]

KeysOf(entries) == Range(entries) \ {Tomb}

MembersOf(sc, s) == IF s \in DOMAIN sc THEN sc[s] ELSE {}

\* History: a suspended sweep notes that the collection it iterates was
\* changed, by the step that leads to registry ac2 and session index sc2.
Observe(tk, ac2, sc2) ==
  IF tk.st = "run" /\ tk.op = "broadcast" /\ KeysOf(ac2) # KeysOf(acEntries)
    THEN [tk EXCEPT !.mut = TRUE]
  ELSE IF tk.st = "run" /\ tk.op = "broadcast_to_session"
          /\ MembersOf(sc2, tk.sess) # MembersOf(session_clients, tk.sess)
    THEN [tk EXCEPT !.mut = TRUE]
  ELSE tk

\* History is looked at where it is made: the record of a call that has
\* returned or raised, and `last`, are cleared (Forget) before anything else
\* happens.  They are history only, so this takes no behaviour away.
Settled ==
  /\ last = NoCall
  /\ \A t \in Tasks : task[t].st \notin {"returned", "raised"}

\* No synchronous call holds the event loop.
LoopFree == loopBusy = None /\ Settled

\* What a handler action leaves alone.
HandlerFrame ==
  /\ task' = [t \in Tasks |-> Observe(task[t], acEntries', session_clients')]
  /\ last' = NoCall
  /\ UNCHANGED <<client_id, alive, initialized, tc, freed>>

\* A handler whose except clauses do not call disconnect.
ExitLeavesEntry(c) ==
  /\ pc' = [pc EXCEPT ![c] = "done"]
  /\ UNCHANGED <<mvars, inflight, loopBusy>>

\* The except clauses of websocket_endpoint, lines 120-126:
\* ws_manager.disconnect(client_id), and the coroutine ends.
Exit(c) ==
  /\ pc' = [pc EXCEPT ![c] = "done"]
  /\ acEntries' = DisconnectAC(acEntries, client_id[c])
  /\ handle' = HandleDel(handle, client_id[c])
  /\ session_clients' = DisconnectSC(session_clients, client_id[c])
  /\ UNCHANGED <<inflight, loopBusy>>

\* A handler that goes back to receive_json while the engine call runs.
NotAwaitingEngine == "recv"

\* The handler is suspended in the engine call (the await of line 168).
AwaitingEngine == "transcribe"

\* A transcribe_chunk that does not look at the flag.
RaisesNever(init) == FALSE

\* transcribe_chunk, lines 88-89: `if not self.initialized: raise`.
RaisesNotInitialized(init) == ~init

\* Lines 163-168: the service is looked up and transcribe_chunk is entered.
\* An uninitialized service raises at once (transcription.py:88-89), which
\* line 190 catches.  transcribe_chunk holds no await: the engine call runs
\* on the event loop, and no other coroutine runs until it is over.
CallTranscribe(c) ==
  IF ~RaisesNotInitialized(initialized)
  THEN /\ pc' = [pc EXCEPT ![c] = AwaitingEngine]
       /\ inflight' = [inflight EXCEPT ![c] = @ + 1]
       /\ loopBusy' = c
       /\ UNCHANGED mvars
  ELSE /\ pc' = [pc EXCEPT ![c] = "send_error"]
       /\ UNCHANGED <<inflight, loopBusy, mvars>>

\* A handler that starts transcribing without acknowledging the chunk.
SendAckSkipped(c) == CallTranscribe(c)

\* Lines 154-157: the ack is handed to the transport.
SendAck(c) ==
  /\ pc' = [pc EXCEPT ![c] = "ack"]
  /\ UNCHANGED <<inflight, loopBusy, mvars>>

\* websocket_endpoint is called with websocket c, whose id is k: client_id
\* is computed (line 97) and connect awaits websocket.accept()
\* (websocket_manager.py:35).
EnterEndpoint(c, k) ==
  /\ LoopFree
  /\ pc[c] = "init"
  /\ pc' = [pc EXCEPT ![c] = "accept"]
  /\ client_id' = [client_id EXCEPT ![c] = k]
  /\ UNCHANGED <<cur, res, nrecv, log, inflight, loopBusy, mvars>>
  /\ task' = [t \in Tasks |-> Observe(task[t], acEntries', session_clients')]
  /\ last' = NoCall
  /\ UNCHANGED <<alive, initialized, tc, freed>>

\* websocket_endpoint is called for a websocket whose id no other
\* websocket has or had.
HandlerStart(c) == EnterEndpoint(c, c)

\* accept() returns and the connection is registered (line 36), or accept()
\* raises and line 124 catches it.
AcceptReturn(c) ==
  /\ LoopFree
  /\ pc[c] = "accept"
  /\ IF alive[c]
     THEN /\ acEntries' = DictSet(acEntries, client_id[c])
          /\ handle' = HandleSet(handle, client_id[c], c)
          /\ pc' = [pc EXCEPT ![c] = "recv"]
          /\ UNCHANGED <<session_clients, inflight, loopBusy>>
     ELSE Exit(c)
  /\ UNCHANGED <<cur, res, nrecv, log>>
  /\ HandlerFrame

\* receive_json() raises WebSocketDisconnect: line 120.
RecvDisconnect(c) ==
  /\ LoopFree
  /\ pc[c] = "recv"
  /\ ~alive[c]
  /\ Exit(c)
  /\ UNCHANGED <<cur, res, nrecv, log>>
  /\ HandlerFrame

\* receive_json() raises on text that is not JSON, or data.get raises on
\* JSON that is not an object (line 107): line 124 catches both.
RecvMalformed(c, shape) ==
  /\ LoopFree
  /\ pc[c] = "recv"
  /\ alive[c]
  /\ Received < MaxMsgs
  /\ nrecv' = [nrecv EXCEPT ![c] = @ + 1]
  /\ log' = [log EXCEPT ![c] = Append(@, Ev(shape, nrecv[c] + 1))]
  /\ Exit(c)
  /\ UNCHANGED <<cur, res>>
  /\ HandlerFrame

\* An audio_chunk message is read (lines 105-111) and handle_audio_chunk
\* runs to its first await: the payload is decoded, which may raise out of
\* the handler, and the ack is sent.  The k-th message carries chunkId k.
RecvAudio(c, p) ==
  /\ LoopFree
  /\ pc[c] = "recv"
  /\ alive[c]
  /\ Received < MaxMsgs
  /\ nrecv' = [nrecv EXCEPT ![c] = @ + 1]
  /\ log' = [log EXCEPT ![c] = Append(@, Ev("audio_" \o p, nrecv[c] + 1))]
  /\ IF B64Decode(p) = "raise"
     THEN /\ Exit(c)
          /\ UNCHANGED cur
     ELSE /\ cur' = [cur EXCEPT ![c] = [chunkId |-> nrecv[c] + 1, bytes |-> B64Decode(p)]]
          /\ SendAck(c)
  /\ UNCHANGED res
  /\ HandlerFrame

\* A ping is read: the pong is sent (line 115).
RecvPing(c) ==
  /\ LoopFree
  /\ pc[c] = "recv"
  /\ alive[c]
  /\ Received < MaxMsgs
  /\ nrecv' = [nrecv EXCEPT ![c] = @ + 1]
  /\ log' = [log EXCEPT ![c] = Append(@, Ev("ping", nrecv[c] + 1))]
  /\ pc' = [pc EXCEPT ![c] = "pong"]
  /\ UNCHANGED <<cur, res, inflight, loopBusy, mvars>>
  /\ HandlerFrame

\* A handler for which an unknown type is an error that ends it.
RecvOtherCloses(c) == RecvMalformed(c, "other")

\* A JSON object of any other type is read: a warning is logged (line 118).
RecvOther(c) ==
  /\ LoopFree
  /\ pc[c] = "recv"
  /\ alive[c]
  /\ Received < MaxMsgs
  /\ nrecv' = [nrecv EXCEPT ![c] = @ + 1]
  /\ log' = [log EXCEPT ![c] = Append(@, Ev("other", nrecv[c] + 1))]
  /\ UNCHANGED <<pc, cur, res, inflight, loopBusy, mvars>>
  /\ HandlerFrame

\* The pong write is over: back to receive_json, or it raised (line 124).
PongReturn(c) ==
  /\ LoopFree
  /\ pc[c] = "pong"
  /\ IF alive[c]
     THEN /\ log' = [log EXCEPT ![c] = Append(@, Ev("pong", 0))]
          /\ pc' = [pc EXCEPT ![c] = "recv"]
          /\ UNCHANGED <<inflight, loopBusy, mvars>>
     ELSE /\ Exit(c)
          /\ UNCHANGED log
  /\ UNCHANGED <<cur, res, nrecv>>
  /\ HandlerFrame

\* The ack write is over.  Written: the try of line 163 is entered.  Raised:
\* the write is outside the try, so line 124 catches it.
AckReturn(c) ==
  /\ LoopFree
  /\ pc[c] = "ack"
  /\ IF alive[c]
     THEN /\ log' = [log EXCEPT ![c] = Append(@, Ev("ack", cur[c].chunkId))]
          /\ CallTranscribe(c)
     ELSE /\ Exit(c)
          /\ UNCHANGED log
  /\ UNCHANGED <<cur, res, nrecv>>
  /\ HandlerFrame

\* transcribe_chunk returns (lines 91-135) and handle_audio_chunk goes on to
\* line 170: a transcript is sent for a non-empty text, nothing otherwise.
TranscribeReturn(c) ==
  /\ loopBusy = c
  /\ inflight[c] > 0
  /\ \E r \in ChunkResults[cur[c].bytes] :
       /\ log' = [log EXCEPT ![c] = Append(@,
                    [ev |-> IF r.failed THEN "engine_failed" ELSE "engine_returned",
                     id |-> cur[c].chunkId, conf |-> r.conf, nseg |-> r.nseg,
                     speech |-> r.text # <<>>])]
       /\ IF ShouldSendTranscript(r.text)
          THEN /\ pc' = [pc EXCEPT ![c] = "send_transcript"]
               /\ res' = [res EXCEPT ![c] = [text |-> r.text, conf |-> r.conf]]
          ELSE /\ pc' = [pc EXCEPT ![c] = "recv"]
               /\ res' = [res EXCEPT ![c] = NoRes]
  /\ inflight' = [inflight EXCEPT ![c] = @ - 1]
  /\ loopBusy' = None
  /\ UNCHANGED <<cur, nrecv, mvars>>
  /\ HandlerFrame

\* The transcript write is over (line 183).  Raised: it is inside the try,
\* so line 190 catches it and the error message is sent.
TranscriptReturn(c) ==
  /\ LoopFree
  /\ pc[c] = "send_transcript"
  /\ IF alive[c]
     THEN /\ log' = [log EXCEPT ![c] = Append(@,
                       [ev |-> "transcript", id |-> cur[c].chunkId,
                        conf |-> res[c].conf, nseg |-> 0, speech |-> TRUE])]
          /\ pc' = [pc EXCEPT ![c] = "recv"]
     ELSE /\ log' = [log EXCEPT ![c] = Append(@, Ev("transcript_failed", cur[c].chunkId))]
          /\ pc' = [pc EXCEPT ![c] = "send_error"]
  /\ res' = [res EXCEPT ![c] = NoRes]
  /\ UNCHANGED <<cur, nrecv, inflight, loopBusy, mvars>>
  /\ HandlerFrame

\* The error write is over (lines 192-196).  Raised: it is in the except
\* clause, so the exception leaves handle_audio_chunk and line 124 catches.
ErrorReturn(c) ==
  /\ LoopFree
  /\ pc[c] = "send_error"
  /\ IF alive[c]
     THEN /\ log' = [log EXCEPT ![c] = Append(@, Ev("error", cur[c].chunkId))]
          /\ pc' = [pc EXCEPT ![c] = "recv"]
          /\ UNCHANGED <<inflight, loopBusy, mvars>>
     ELSE /\ Exit(c)
          /\ UNCHANGED log
  /\ UNCHANGED <<cur, res, nrecv>>
  /\ HandlerFrame

\* The client goes away: the transport is closed from the other side.
ClientDrop(c) ==
  /\ Settled
  /\ alive[c]
  /\ pc[c] \notin {"init", "done"}
  /\ alive' = [alive EXCEPT ![c] = FALSE]
  /\ last' = NoCall
  /\ UNCHANGED <<hvars, mvars, initialized, freed, task>>

\* TranscriptionService.initialize(), lines 33-70: the model is loaded.  The
\* lifespan runs it before any connection is served (main.py:44); a service
\* it was never run on stays uninitialized.
Initialize ==
  /\ \A c \in Conns : pc[c] = "init"
  /\ ~initialized
  /\ initialized' = TRUE
  /\ last' = NoCall
  /\ UNCHANGED <<hvars, mvars, alive, freed, task>>

\* --------------------------------------------- WebSocketManager: coroutines
TaskFrame == /\ last' = NoCall
             /\ UNCHANGED <<hvars, alive, initialized, freed>>

CanCall(t) == LoopFree /\ task[t].st = "idle"

\* send_to_client(c, M), lines 56-58: an unregistered client is skipped, a
\* registered one is written to.
SendStart(t, c) ==
  /\ CanCall(t)
  /\ task' = [u \in Tasks |->
       IF u # t THEN task[u]
       ELSE IF c \in ActiveKeys
            THEN [IdleTask EXCEPT !.op = "send_to_client", !.st = "run", !.target = c]
            ELSE [IdleTask EXCEPT !.op = "send_to_client", !.st = "returned"]]
  /\ UNCHANGED mvars
  /\ TaskFrame

\* A send_to_client without the try: the exception of the write leaves it.
WriteFailurePropagates(t, c) ==
  /\ UNCHANGED mvars
  /\ task' = [u \in Tasks |->
       IF u # t THEN task[u]
       ELSE [task[t] EXCEPT !.st = "raised", !.target = None]]

\* send_to_client, lines 59-61: the exception of the write is caught, the
\* client is disconnected and the call returns.
WriteFailed(t, c) ==
  /\ acEntries' = DisconnectAC(acEntries, c)
  /\ handle' = HandleDel(handle, c)
  /\ session_clients' = DisconnectSC(session_clients, c)
  /\ task' = [u \in Tasks |->
       IF u # t THEN Observe(task[u], acEntries', session_clients')
       ELSE [task[t] EXCEPT !.st = "returned", !.target = None,
                            !.disconnected_clients = Append(@, c)]]

\* send_to_client, lines 58-61: the write is over; a write that raised
\* disconnects the client, and the call returns either way.
SendReturn(t) ==
  /\ LoopFree
  /\ task[t].op = "send_to_client" /\ task[t].st = "run"
  /\ LET c == task[t].target
     IN  IF alive[c]
         THEN /\ UNCHANGED mvars
              /\ task' = [u \in Tasks |->
                   IF u # t THEN task[u]
                   ELSE [task[t] EXCEPT !.st = "returned", !.target = None,
                                        !.delivered = Append(@, c)]]
         ELSE WriteFailed(t, c)
  /\ TaskFrame

\* next() of the iterator of active_connections.items(): the dict's used
\* count must be the one the iterator was made with; the entries are walked
\* from di_pos, holes skipped; an entry found when di_len items were already
\* given is an error too.
DictIterNext(entries, tk) ==
  LET live == {i \in tk.di_pos..Len(entries) : entries[i] # Tomb}
  IN  IF tk.di_used # Cardinality(KeysOf(entries)) THEN [kind |-> "raise", key |-> None, pos |-> tk.di_pos]
      ELSE IF live = {} THEN [kind |-> "stop", key |-> None, pos |-> tk.di_pos]
      ELSE IF tk.di_len = 0 THEN [kind |-> "raise", key |-> None, pos |-> tk.di_pos]
      ELSE LET i == CHOOSE j \in live : \A k \in live : j <= k
           IN  [kind |-> "item", key |-> entries[i], pos |-> i + 1]

RECURSIVE DisconnectAllAC(_, _)
DisconnectAllAC(entries, cs) ==
  IF cs = <<>> THEN entries
  ELSE DisconnectAllAC(DisconnectAC(entries, Head(cs)), Tail(cs))

RECURSIVE DisconnectAllH(_, _)
DisconnectAllH(h, cs) ==
  IF cs = <<>> THEN h
  ELSE DisconnectAllH(HandleDel(h, Head(cs)), Tail(cs))

RECURSIVE DisconnectAllSC(_, _)
DisconnectAllSC(sc, cs) ==
  IF cs = <<>> THEN sc
  ELSE DisconnectAllSC(DisconnectSC(sc, Head(cs)), Tail(cs))

\* A broadcast that disconnects a failed client inside the sweep.
FailedWriteDisconnectsAtOnce(entries, failed) == DisconnectAllAC(entries, failed)

\* broadcast, lines 72-74: inside the sweep a failed write is only noted, the
\* registry is left as it is.
RegistryInSweep(entries, failed) == entries

\* broadcast from a next() of the iterator on: the write to the item it
\* gives is started (line 71); when it stops, lines 77-78 disconnect the
\* failed clients and the call returns; when it raises, so does the call.
BroadcastAdvance(t, tk) ==
  LET ac1 == RegistryInSweep(acEntries, tk.disconnected_clients)
      n == DictIterNext(ac1, tk)
  IN  CASE n.kind = "item" ->
             /\ acEntries' = ac1
             /\ UNCHANGED <<handle, session_clients>>
             /\ task' = [u \in Tasks |->
                  IF u # t THEN Observe(task[u], acEntries', session_clients')
                  ELSE [tk EXCEPT !.st = "run", !.target = n.key,
                                  !.di_pos = n.pos, !.di_len = @ - 1]]
        [] n.kind = "stop" ->
             /\ acEntries' = DisconnectAllAC(ac1, tk.disconnected_clients)
             /\ handle' = DisconnectAllH(handle, tk.disconnected_clients)
             /\ session_clients' = DisconnectAllSC(session_clients, tk.disconnected_clients)
             /\ task' = [u \in Tasks |->
                  IF u # t THEN Observe(task[u], acEntries', session_clients')
                  ELSE [tk EXCEPT !.st = "returned", !.target = None]]
        [] n.kind = "raise" ->
             /\ acEntries' = ac1
             /\ UNCHANGED <<handle, session_clients>>
             /\ task' = [u \in Tasks |->
                  IF u # t THEN Observe(task[u], acEntries', session_clients')
                  ELSE [tk EXCEPT !.st = "raised", !.target = None]]

\* broadcast(M) is called: lines 67-69, the iterator is made.
BroadcastStart(t) ==
  /\ CanCall(t)
  /\ BroadcastAdvance(t, [IdleTask EXCEPT !.op = "broadcast",
                            !.di_used = Cardinality(ActiveKeys),
                            !.di_len = Cardinality(ActiveKeys),
                            !.snap = ActiveKeys, !.snapKeys = ActiveKeys])
  /\ TaskFrame

\* The write of the sweep is over: written, or raised and the client noted
\* (lines 72-74); then the next item.
BroadcastStep(t) ==
  /\ LoopFree
  /\ task[t].op = "broadcast" /\ task[t].st = "run"
  /\ LET c == task[t].target
     IN  IF alive[c]
         THEN BroadcastAdvance(t, [task[t] EXCEPT !.delivered = Append(@, c)])
         ELSE BroadcastAdvance(t, [task[t] EXCEPT !.disconnected_clients = Append(@, c)])
  /\ TaskFrame

\* broadcast_to_session from a next() of the set iterator on (line 85).
\* The set's size must be the one the iterator was made with.  The members
\* not yet passed are visited in the table's order, which is any order:
\* members that are not registered are passed without an await (line 56),
\* the write to the first registered one is started (line 58).  A member
\* added behind the iterator's position is never visited.
SessionAdvance(t, tk) ==
  LET members == MembersOf(session_clients', tk.sess)
      ahead == members \ tk.si_behind
      keys == KeysOf(acEntries')
  IN  IF tk.si_used # Cardinality(members)
      THEN task' = [u \in Tasks |->
             IF u # t THEN Observe(task[u], acEntries', session_clients')
             ELSE [tk EXCEPT !.st = "raised", !.target = None]]
      ELSE \/ /\ ahead \cap keys = {}
              /\ task' = [u \in Tasks |->
                   IF u # t THEN Observe(task[u], acEntries', session_clients')
                   ELSE [tk EXCEPT !.st = "returned", !.target = None,
                                   !.si_behind = @ \cup ahead]]
           \/ \E c \in ahead \cap keys, skipped \in SUBSET (ahead \ keys) :
                task' = [u \in Tasks |->
                   IF u # t THEN Observe(task[u], acEntries', session_clients')
                   ELSE [tk EXCEPT !.st = "run", !.target = c,
                                   !.si_behind = @ \cup skipped \cup {c}]]

\* broadcast_to_session(s, M) is called: line 84, and the iterator over the
\* session's own set is made (line 85).
SessionStart(t, s) ==
  /\ CanCall(t)
  /\ UNCHANGED mvars
  /\ IF s \in DOMAIN session_clients
     THEN SessionAdvance(t, [IdleTask EXCEPT !.op = "broadcast_to_session",
                               !.sess = s,
                               !.si_used = Cardinality(session_clients[s]),
                               !.snap = session_clients[s],
                               !.snapKeys = ActiveKeys])
     ELSE task' = [u \in Tasks |->
            IF u # t THEN task[u]
            ELSE [IdleTask EXCEPT !.op = "broadcast_to_session", !.sess = s,
                                  !.st = "returned"]]
  /\ TaskFrame

\* The write in send_to_client (line 58) is over: written, or raised and the
\* client disconnected (lines 59-61); then the next member.
SessionStep(t) ==
  /\ LoopFree
  /\ task[t].op = "broadcast_to_session" /\ task[t].st = "run"
  /\ LET c == task[t].target
     IN  IF alive[c]
         THEN /\ UNCHANGED mvars
              /\ SessionAdvance(t, [task[t] EXCEPT !.delivered = Append(@, c)])
         ELSE /\ acEntries' = DisconnectAC(acEntries, c)
              /\ handle' = HandleDel(handle, c)
              /\ session_clients' = DisconnectSC(session_clients, c)
              /\ SessionAdvance(t, [task[t] EXCEPT !.disconnected_clients = Append(@, c)])
  /\ TaskFrame

\* register_session_client(s, c) is called, lines 88-96.
RegisterCall(s, c) ==
  /\ LoopFree
  /\ session_clients' = RegisterSC(session_clients, s, c)
  /\ UNCHANGED <<acEntries, handle>>
  /\ task' = [t \in Tasks |-> Observe(task[t], acEntries', session_clients')]
  /\ last' = NoCall
  /\ UNCHANGED <<hvars, alive, initialized, freed>>

\* History is cleared.
Forget ==
  /\ ~Settled
  /\ last' = NoCall
  /\ task' = [t \in Tasks |-> IF task[t].st = "run" THEN task[t] ELSE IdleTask]
  /\ UNCHANGED <<hvars, mvars, alive, initialized, freed>>

\* disconnect(c) is called, lines 39-50.
DisconnectCall(c) ==
  /\ LoopFree
  /\ acEntries' = DisconnectAC(acEntries, c)
  /\ handle' = HandleDel(handle, c)
  /\ session_clients' = DisconnectSC(session_clients, c)
  /\ task' = [t \in Tasks |-> Observe(task[t], acEntries', session_clients')]
  /\ last' = [op |-> "disconnect", c |-> c,
              nsess |-> Cardinality({s \in DOMAIN session_clients : c \in session_clients[s]}),
              wasActive |-> c \in ActiveKeys]
  /\ UNCHANGED <<hvars, alive, initialized, freed>>

\* ------------------------------------------- transcribe_chunk, step by step
NoCallYet == [st |-> "loop", segs |-> <<>>, text |-> <<>>, conf |-> 0]

TcFrame ==
  /\ last' = NoCall
  /\ UNCHANGED <<pc, client_id, cur, res, nrecv, log, inflight, loopBusy,
                 alive, initialized, mvars, freed, task>>

\* One turn of `for segment in segments`, lines 113-116: the engine gives
\* one more sub-segment, its text and log-probability are added up.
SegmentYielded(seg) ==
  /\ tc.st = "loop"
  /\ Len(tc.segs) < MaxSegs
  /\ tc' = [tc EXCEPT !.segs = Append(@, seg)]
  /\ TcFrame

\* The loop is over, lines 118-131: the text is stripped, the confidence
\* computed, and both are returned.
LoopEnds ==
  /\ tc.st = "loop"
  /\ LET r == TranscribeChunk("pcm", [raises |-> FALSE, segs |-> tc.segs])
     IN  tc' = [tc EXCEPT !.st = "returned", !.text = r.text, !.conf = r.conf]
  /\ TcFrame

\* The engine raises in the middle of the loop: lines 133-135 return
\* ("", 0.0).
EngineRaises ==
  /\ tc.st = "loop"
  /\ LET r == TranscribeChunk("pcm", [raises |-> TRUE, segs |-> tc.segs])
     IN  tc' = [tc EXCEPT !.st = "failed", !.text = r.text, !.conf = r.conf]
  /\ TcFrame

\* ------------------------------------------------- identities and handles
\* The handler of websocket c was entered through websocket_endpoint.
ViaEndpoint(c) == pc[c] \notin {"init", "connect", "held", "refused"}

\* Address a holds no websocket object: id() is the address of a live
\* object, and the address of a deallocated one can be given out again.
AddrFree(a) ==
  \A d \in Conns : (ViaEndpoint(d) /\ client_id[d] = a) => d \in freed

\* websocket_endpoint is called with a websocket allocated at address a.
EndpointCall(c, a) ==
  /\ AddrFree(a)
  /\ EnterEndpoint(c, a)

\* The websocket object of an ended handler is deallocated once nothing
\* refers to it: the handler's frame is gone and no key of
\* active_connections holds it.
Deallocate(c) ==
  /\ LoopFree
  /\ pc[c] = "done"
  /\ c \notin freed
  /\ \A k \in Keys : handle[k] # c
  /\ freed' = freed \cup {c}
  /\ last' = NoCall
  /\ UNCHANGED <<hvars, mvars, alive, initialized, task>>

\* connect(websocket, k) is called by some other caller, lines 31-35: it
\* awaits websocket.accept().
ConnectCall(c, k) ==
  /\ LoopFree
  /\ pc[c] = "init"
  /\ pc' = [pc EXCEPT ![c] = "connect"]
  /\ client_id' = [client_id EXCEPT ![c] = k]
  /\ last' = NoCall
  /\ UNCHANGED <<cur, res, nrecv, log, inflight, loopBusy, mvars, alive,
                 initialized, tc, freed, task>>

\* accept() returns and line 36 stores the websocket under the key, or
\* accept() raises to the caller of connect.
ConnectReturn(c) ==
  /\ LoopFree
  /\ pc[c] = "connect"
  /\ IF alive[c]
     THEN /\ acEntries' = DictSet(acEntries, client_id[c])
          /\ handle' = HandleSet(handle, client_id[c], c)
          /\ pc' = [pc EXCEPT ![c] = "held"]
     ELSE /\ pc' = [pc EXCEPT ![c] = "refused"]
          /\ UNCHANGED <<acEntries, handle>>
  /\ last' = NoCall
  /\ UNCHANGED <<client_id, cur, res, nrecv, log, inflight, loopBusy,
                 session_clients, alive, initialized, tc, freed, task>>

\* ------------------------------------------------------------ specification
Init ==
  /\ pc = [c \in Conns |-> "init"]
  /\ client_id = [c \in Conns |-> None]
  /\ handle = [k \in Keys |-> None]
  /\ freed = {}
  /\ tc = NoCallYet
  /\ cur = [c \in Conns |-> NoChunk]
  /\ res = [c \in Conns |-> NoRes]
  /\ nrecv = [c \in Conns |-> 0]
  /\ log = [c \in Conns |-> <<>>]
  /\ inflight = [c \in Conns |-> 0]
  /\ loopBusy = None
  /\ alive = [c \in Conns |-> TRUE]
  /\ initialized = FALSE
  /\ acEntries = <<>>
  /\ session_clients = <<>>
  /\ task = [t \in Tasks |-> IdleTask]
  /\ last = NoCall

\* The connection handlers of the clients that talk, and the engine.
Next ==
  \/ Initialize
  \/ \E c \in Talkers : HandlerStart(c)
  \/ \E c \in Talkers : AcceptReturn(c)
  \/ \E c \in Talkers : RecvDisconnect(c)
  \/ \E c \in Talkers, shape \in {"not_json", "not_object"} : RecvMalformed(c, shape)
  \/ \E c \in Talkers, p \in Payloads : RecvAudio(c, p)
  \/ \E c \in Talkers : RecvPing(c)
  \/ \E c \in Talkers : RecvOther(c)
  \/ \E c \in Talkers : PongReturn(c)
  \/ \E c \in Talkers : AckReturn(c)
  \/ \E c \in Talkers : TranscribeReturn(c)
  \/ \E c \in Talkers : TranscriptReturn(c)
  \/ \E c \in Talkers : ErrorReturn(c)
  \/ \E c \in Talkers : ClientDrop(c)

Spec == Init /\ [][Next]_vars

\* The registry under its callers: connections that come and go (their
\* clients send nothing), and a task that disconnects clients, sends to one
\* and broadcasts to all.
NextBroadcast ==
  \/ \E c \in Conns : HandlerStart(c)
  \/ \E c \in Conns : AcceptReturn(c)
  \/ \E c \in Conns : RecvDisconnect(c)
  \/ \E c \in Conns : ClientDrop(c)
  \/ \E c \in Conns : DisconnectCall(c)
  \/ \E t \in Tasks, c \in Conns : SendStart(t, c)
  \/ \E t \in Tasks : SendReturn(t)
  \/ \E t \in Tasks : BroadcastStart(t)
  \/ \E t \in Tasks : BroadcastStep(t)
  \/ Forget

SpecBroadcast == Init /\ [][NextBroadcast]_vars

\* The registry and the session index under direct calls: connections that
\* come and go, and callers that register clients to sessions and
\* disconnect them.
NextRegistry ==
  \/ \E c \in Conns : HandlerStart(c)
  \/ \E c \in Conns : AcceptReturn(c)
  \/ \E c \in Conns : RecvDisconnect(c)
  \/ \E c \in Conns : ClientDrop(c)
  \/ \E s \in Sessions, c \in Conns : RegisterCall(s, c)
  \/ \E c \in Conns : DisconnectCall(c)
  \/ Forget

SpecRegistry == Init /\ [][NextRegistry]_vars

\* The session a broadcast goes to.
Room == "s1"

\* A session broadcast under its callers: connections that come and go and
\* are disconnected by their handlers, clients registered to the session,
\* and a task that broadcasts to a session.
NextSession ==
  \/ \E c \in Conns : HandlerStart(c)
  \/ \E c \in Conns : AcceptReturn(c)
  \/ \E c \in Conns : RecvDisconnect(c)
  \/ \E c \in Conns : ClientDrop(c)
  \/ \E c \in Conns : RegisterCall(Room, c)
  \/ \E t \in Tasks, s \in Sessions : SessionStart(t, s)
  \/ \E t \in Tasks : SessionStep(t)
  \/ Forget

SpecSession == Init /\ [][NextSession]_vars

\* Teardown from several sides: connections that come and go and are
\* disconnected by their handlers, clients registered to sessions, and a
\* task that sends to one connection and broadcasts to all.
NextTeardown ==
  \/ \E c \in Talkers : HandlerStart(c)
  \/ \E c \in Talkers : AcceptReturn(c)
  \/ \E c \in Talkers : RecvDisconnect(c)
  \/ \E c \in Talkers : ClientDrop(c)
  \/ \E s \in Sessions, c \in Talkers : RegisterCall(s, c)
  \/ \E t \in Tasks, c \in Talkers : SendStart(t, c)
  \/ \E t \in Tasks : SendReturn(t)
  \/ \E t \in Tasks : BroadcastStart(t)
  \/ \E t \in Tasks : BroadcastStep(t)
  \/ Forget

SpecTeardown == Init /\ [][NextTeardown]_vars

\* Identities: connections that come and go at the addresses the allocator
\* gives their websockets, and a caller that connects websockets under ids
\* of its own choice.
NextIdentity ==
  \/ \E c \in Conns, a \in Addrs : EndpointCall(c, a)
  \/ \E c \in Conns : AcceptReturn(c)
  \/ \E c \in Conns : RecvDisconnect(c)
  \/ \E c \in Conns : ClientDrop(c)
  \/ \E c \in Conns : Deallocate(c)
  \/ \E c \in Conns, k \in Addrs : ConnectCall(c, k)
  \/ \E c \in Conns : ConnectReturn(c)

SpecIdentity == Init /\ [][NextIdentity]_vars

\* One transcribe_chunk call of an initialized service, for any sequence
\* of sub-segments the engine may give.
NextConfidence ==
  \/ \E seg \in [text : SegTexts, lp : AnyLogProbs] : SegmentYielded(seg)
  \/ LoopEnds
  \/ EngineRaises

SpecConfidence == Init /\ [][NextConfidence]_vars

\* What the event loop runs next for the handler of c once the operation
\* it awaits is over: the coroutine is resumed.
HandlerStep(c) ==
  \/ AcceptReturn(c)
  \/ RecvDisconnect(c)
  \/ PongReturn(c)
  \/ AckReturn(c)
  \/ TranscribeReturn(c)
  \/ TranscriptReturn(c)
  \/ ErrorReturn(c)

\* The connection whose client sends messages in the lifecycle
\* specification; the other one only comes and goes.
Speaker == "A"

\* Inbound messages in the lifecycle specification, whose behaviours are
\* checked for what happens in the end as well.
LifecycleMsgs == MaxMsgs - 1

\* The speaker's client sends a chunk of valid audio.
SpeakerChunk ==
  /\ Received < LifecycleMsgs
  /\ RecvAudio(Speaker, "pcm")

\* The speaker's client sends a ping.
SpeakerPing ==
  /\ Received < LifecycleMsgs
  /\ RecvPing(Speaker)

\* The life of two connections whose clients may go away at any moment, one
\* of them sending chunks and pings, with clients registered to a session.
\* The event loop resumes every coroutine whose awaited operation is over.
NextLifecycle ==
  \/ Initialize
  \/ \E c \in Talkers : HandlerStart(c)
  \/ SpeakerChunk
  \/ SpeakerPing
  \/ \E c \in Talkers : ClientDrop(c)
  \/ \E c \in Talkers : RegisterCall(Room, c)
  \/ \E c \in Talkers : HandlerStep(c)

SpecLifecycle ==
  /\ Init
  /\ [][NextLifecycle]_vars
  /\ \A c \in Talkers : WF_vars(HandlerStep(c))

\* ------------------------------------------------------------------ claims
Finished(t) == task[t].st \in {"returned", "raised"}

\* C1: after disconnect(C) has returned, C is no key of active_connections
\* and no member of any session set, however many sessions C had been
\* registered to.
C1_DisconnectLeavesNoMembership ==
  last.op = "disconnect" =>
    /\ last.c \notin ActiveKeys
    /\ \A s \in DOMAIN session_clients : last.c \notin session_clients[s]

\* disconnect(C) has just returned for a registered C that was a member of
\* two sessions.
C1_Witness ==
  /\ last.op = "disconnect"
  /\ last.wasActive
  /\ last.nsess = 2

\* C5: in a broadcast during which no connection is added or removed by
\* anyone else, a failed write stops nothing: the call does not raise, each
\* connection registered at the call whose write did not fail is written to
\* exactly once, and the connections whose write failed stay registered
\* until the sweep is over and are removed when broadcast returns.
C5_BroadcastIsolatesFailedWrite ==
  \A t \in Tasks :
    (task[t].op = "broadcast" /\ ~task[t].mut) =>
      LET failed == Range(task[t].disconnected_clients)
      IN  /\ task[t].st # "raised"
          /\ task[t].st = "run" => failed \subseteq ActiveKeys
          /\ task[t].st = "returned" =>
               /\ \A c \in task[t].snap \ failed : Count(task[t].delivered, c) = 1
               /\ \A c \in failed : Count(task[t].delivered, c) = 0
               /\ Range(task[t].delivered) \subseteq task[t].snap
               /\ failed \cap ActiveKeys = {}

\* A broadcast to three registered connections has returned: one write
\* failed, the two other connections were written to.
C5_Witness ==
  \E t \in Tasks :
    /\ task[t].op = "broadcast" /\ task[t].st = "returned" /\ ~task[t].mut
    /\ Cardinality(task[t].snap) = 3
    /\ Len(task[t].disconnected_clients) = 1
    /\ Len(task[t].delivered) = 2

\* C6 as claimed: a session broadcast in which no write fails delivers to
\* exactly the members at the call: no connection outside them is written
\* to, and every member that was registered at the call and still is, with
\* its client there, is written to, whatever joins or leaves meanwhile.
C6_SessionBroadcastUsesSnapshot ==
  \A t \in Tasks :
    (/\ task[t].op = "broadcast_to_session"
     /\ Finished(t)
     /\ task[t].disconnected_clients = <<>>) =>
      /\ Range(task[t].delivered) \subseteq task[t].snap
      /\ \A c \in task[t].snap \cap task[t].snapKeys :
           (c \in ActiveKeys /\ alive[c]) => c \in Range(task[t].delivered)

\* C7 as claimed: in a broadcast to a session of two or more registered
\* members that nobody else changes, a failed write to one member does not
\* make the call raise, and every other member that was registered at the call and still is, with its
\* client there, is written to.
C7_SessionBroadcastIsolatesFailedWrite ==
  \A t \in Tasks :
    (/\ task[t].op = "broadcast_to_session"
     /\ Finished(t)
     /\ ~task[t].mut
     /\ Cardinality(task[t].snap \cap task[t].snapKeys) >= 2
     /\ Len(task[t].disconnected_clients) = 1) =>
      /\ task[t].st = "returned"
      /\ \A c \in (task[t].snap \cap task[t].snapKeys) \ Range(task[t].disconnected_clients) :
           (c \in ActiveKeys /\ alive[c]) => c \in Range(task[t].delivered)

\* The messages the handler has written to connection c, by log position.
Written(c) == {i \in 1..Len(log[c]) : log[c][i].ev \in {"ack", "transcript", "error"}}

\* The handler of c is between messages, or has ended, and every write it
\* made went through (its client is still there).
AtRest(c) == alive[c] /\ pc[c] \in {"recv", "done"}

\* C2: on every connection the written messages follow the order in which
\* the chunks were submitted (the k-th message read carries chunkId k), and
\* the transcript or error of a chunk comes after the ack of that chunk.
C2_WritesFollowSubmissionOrder ==
  \A c \in Conns :
    /\ \A i, j \in Written(c) : i < j => log[c][i].id <= log[c][j].id
    /\ \A j \in Written(c) :
         log[c][j].ev \in {"transcript", "error"} =>
           \E i \in Written(c) :
             i < j /\ log[c][i].ev = "ack" /\ log[c][i].id = log[c][j].id

\* A connection was written the ack and the transcript of its first chunk
\* and then the ack and the transcript of its second.
C2_Witness ==
  \E c \in Conns :
    \E i, j \in Written(c) :
      /\ i < j
      /\ log[c][i].ev = "transcript" /\ log[c][i].id = 1
      /\ log[c][j].ev = "transcript" /\ log[c][j].id = 2

\* C3: a connection has at most one transcribe_chunk call in flight, and
\* while it has one its handler is suspended in that call: it neither reads
\* the next message nor starts on the next chunk.
C3_OneTranscriptionPerConnection ==
  \A c \in Conns :
    /\ inflight[c] <= 1
    /\ inflight[c] = 1 => pc[c] = "transcribe"

\* The second chunk of a connection is being transcribed.
C3_Witness ==
  \E c \in Conns : inflight[c] = 1 /\ cur[c].chunkId = 2

\* C4 as claimed: when the engine call for chunk k fails, the connection is
\* written ack k and then error k, and stays registered.
C4_EngineFailureYieldsError ==
  \A c \in Conns :
    AtRest(c) =>
      \A i \in 1..Len(log[c]) :
        log[c][i].ev = "engine_failed" =>
          /\ \E j \in Written(c) :
               j < i /\ log[c][j].ev = "ack" /\ log[c][j].id = log[c][i].id
          /\ \E j \in Written(c) :
               j > i /\ log[c][j].ev = "error" /\ log[c][j].id = log[c][i].id
          /\ c \in ActiveKeys

\* C8 as claimed: an audio_chunk whose audioData cannot be decoded is
\* answered with an error message carrying its chunkId, and the connection
\* stays registered with its handler reading on.
C8_MalformedPayloadYieldsError ==
  \A c \in Conns :
    AtRest(c) =>
      \A i \in 1..Len(log[c]) :
        log[c][i].ev \in {"audio_badpad", "audio_missing"} =>
          /\ \E j \in Written(c) :
               j > i /\ log[c][j].ev = "error" /\ log[c][j].id = log[c][i].id
          /\ pc[c] = "recv"
          /\ c \in ActiveKeys

\* C9 as claimed: every audio_chunk read is answered with an ack carrying
\* its chunkId, written before the transcription call for it starts.
C9_EveryChunkAcked ==
  \A c \in Conns :
    /\ inflight[c] > 0 =>
         \E j \in Written(c) : log[c][j].ev = "ack" /\ log[c][j].id = cur[c].chunkId
    /\ AtRest(c) =>
         \A i \in 1..Len(log[c]) :
           log[c][i].ev \in {"audio_pcm", "audio_odd", "audio_badpad", "audio_missing"} =>
             \E j \in Written(c) :
               j > i /\ log[c][j].ev = "ack" /\ log[c][j].id = log[c][i].id

\* C10: a chunk for which the engine returns no sub-segment, or an empty
\* text, gets one message written, its ack, and no transcript or error; and
\* for no sub-segment transcribe_chunk returns the confidence 0.0.
C10_EmptyResultYieldsAckOnly ==
  \A c \in Conns :
    \A i \in 1..Len(log[c]) :
      (log[c][i].ev = "engine_returned" /\ (log[c][i].nseg = 0 \/ ~log[c][i].speech)) =>
        /\ \A j \in Written(c) : log[c][j].id = log[c][i].id => log[c][j].ev = "ack"
        /\ Cardinality({j \in Written(c) : log[c][j].id = log[c][i].id}) = 1
        /\ log[c][i].nseg = 0 => log[c][i].conf = 0

\* The engine returned no sub-segment for one chunk and whitespace for
\* another, and the handler is reading on.
C10_Witness ==
  \E c \in Conns :
    /\ pc[c] = "recv"
    /\ \E i, j \in 1..Len(log[c]) :
         /\ log[c][i].ev = "engine_returned" /\ log[c][i].nseg = 0
         /\ log[c][j].ev = "engine_returned" /\ log[c][j].nseg > 0 /\ ~log[c][j].speech

\* C11: teardown is idempotent.  Whatever the handler of C, send_to_client
\* and broadcast have done so far, a disconnect(C) raises nothing; and when
\* C has been disconnected already (it is no key of active_connections and
\* no member of a session), one more disconnect(C), from any code path,
\* leaves active_connections and session_clients as they are.
C11_TeardownIsIdempotent ==
  \A c \in Conns :
    /\ ~DisconnectRaises(acEntries, session_clients, c)
    /\ ~DisconnectRaises(DisconnectAC(acEntries, c), DisconnectSC(session_clients, c), c)
    /\ (c \notin ActiveKeys /\ \A s \in DOMAIN session_clients : c \notin session_clients[s]) =>
         /\ KeysOf(DisconnectAC(acEntries, c)) = ActiveKeys
         /\ DisconnectAC(acEntries, c) = acEntries
         /\ DisconnectSC(session_clients, c) = session_clients

\* The handler of C has disconnected C on its read error, and after that
\* the failed write of a send_to_client(C, M) has disconnected C again;
\* another connection is still registered and a member of a session.
C11_Witness ==
  \E t \in Tasks, c \in Conns :
    /\ task[t].op = "send_to_client" /\ task[t].st = "returned"
    /\ task[t].disconnected_clients = <<c>>
    /\ pc[c] = "done"
    /\ c \notin ActiveKeys
    /\ \E d \in ActiveKeys : \E s \in DOMAIN session_clients : d \in session_clients[s]

\* C12: send_to_client never raises to its caller.  When its write to C
\* fails, the call returns and C is then no key of active_connections and
\* no member of any session set; when C is not registered at the call, the
\* call returns at once, nothing is written, and active_connections and
\* session_clients are left as they were.
C12_SendToClientContainsFailure ==
  [][\A t \in Tasks :
       /\ task'[t].op = "send_to_client" => task'[t].st # "raised"
       /\ (/\ task[t].op = "send_to_client" /\ task[t].st = "run"
           /\ task'[t].st # "run"
           /\ ~alive[task[t].target]) =>
            /\ task'[t].st = "returned"
            /\ task'[t].delivered = <<>>
            /\ task[t].target \notin KeysOf(acEntries')
            /\ \A s \in DOMAIN session_clients' : task[t].target \notin session_clients'[s]
       /\ (task[t].st = "idle" /\ task'[t].op = "send_to_client" /\ task'[t].st = "returned") =>
            /\ task'[t].delivered = <<>>
            /\ UNCHANGED mvars
    ]_vars

\* A send_to_client(C, M) has returned after its write failed: C, whose
\* handler has not yet noticed anything, is registered no more, while
\* another connection still is a member of a session.
C12_Witness ==
  \E t \in Tasks, c \in Conns :
    /\ task[t].op = "send_to_client" /\ task[t].st = "returned"
    /\ task[t].disconnected_clients = <<c>>
    /\ pc[c] = "recv"
    /\ c \notin ActiveKeys
    /\ \E d \in ActiveKeys : \E s \in DOMAIN session_clients : d \in session_clients[s]

\* C13 as claimed: a broadcast to a session that two or more registered
\* connections were members of at the call, in which no write fails and all
\* of those members stay registered with their clients there, returns having
\* written to each of them exactly once and to nobody else.
C13_SessionBroadcastReachesEachMemberOnce ==
  \A t \in Tasks :
    (/\ task[t].op = "broadcast_to_session"
     /\ Finished(t)
     /\ task[t].disconnected_clients = <<>>
     /\ Cardinality(task[t].snap) >= 2
     /\ task[t].snap \subseteq task[t].snapKeys
     /\ \A c \in task[t].snap : c \in ActiveKeys /\ alive[c]) =>
      /\ task[t].st = "returned"
      /\ \A c \in task[t].snap : Count(task[t].delivered, c) = 1
      /\ Range(task[t].delivered) \subseteq task[t].snap

\* What the handler logs for a message it has read.
ReadEvents ==
  {"not_json", "not_object", "ping", "other"} \cup {"audio_" \o p : p \in Payloads}

\* The log position of the last message read on connection c (0: none).
LastRead(c) ==
  LET reads == {i \in 1..Len(log[c]) : log[c][i].ev \in ReadEvents}
  IN  IF reads = {} THEN 0 ELSE CHOOSE i \in reads : \A j \in reads : j <= i

C15_UnknownTypeIsIgnored ==
  [][\A c \in Conns :
       /\ (Len(log'[c]) = Len(log[c]) + 1 /\ log'[c][Len(log'[c])].ev = "other") =>
            /\ pc[c] = "recv" /\ pc'[c] = "recv"
            /\ UNCHANGED mvars
            /\ c \in KeysOf(acEntries')
       /\ \A i \in 1..(Len(log'[c]) - 1) :
            log'[c][i].ev = "other" => log'[c][i + 1].ev \in ReadEvents
    ]_vars

\* A connection's first message had an unknown type; the handler went on
\* to read the second message, a chunk, and acknowledged it.
C15_Witness ==
  \E c \in Conns :
    /\ c \in ActiveKeys
    /\ Len(log[c]) >= 3
    /\ log[c][1].ev = "other"
    /\ log[c][2].ev = "audio_pcm"
    /\ log[c][3] = Ev("ack", 2)

\* C16 as claimed: when the last message read on a connection was text
\* that is not JSON, or JSON that is not an object, and the client is still
\* there, the connection is registered and its handler is waiting for the
\* next message.
C16_MalformedMessageIsIgnored ==
  \A c \in Conns :
    (/\ alive[c]
     /\ LastRead(c) > 0
     /\ log[c][LastRead(c)].ev \in {"not_json", "not_object"}) =>
      /\ pc[c] = "recv"
      /\ c \in ActiveKeys

\* C17 as claimed: a connect under an id that is a key of
\* active_connections already does not succeed, and the websocket stored
\* under the key stays the one that was there.
C17_DuplicateIdIsRejected ==
  [][\A c \in Conns :
       (/\ pc[c] \in {"accept", "connect"}
        /\ pc'[c] # pc[c]
        /\ alive[c]
        /\ client_id[c] \in ActiveKeys) =>
         /\ pc'[c] \notin {"recv", "held"}
         /\ handle'[client_id[c]] = handle[client_id[c]]
    ]_vars

\* C19 as claimed: no two connections that websocket_endpoint has served
\* so far, ended ones included, were given the same client_id.
C19_ClientIdNeverReused ==
  \A c, d \in Conns :
    (c # d /\ ViaEndpoint(c) /\ ViaEndpoint(d)) => client_id[c] # client_id[d]

\* The next step of the handler of c when the transport operation it is
\* suspended in is over.
HandlerResumes(c) ==
  \/ AcceptReturn(c)
  \/ PongReturn(c)
  \/ AckReturn(c)
  \/ TranscriptReturn(c)
  \/ ErrorReturn(c)

\* C18 as claimed: while the transcription call of one connection is in
\* flight, the handler of another connection that waits for its accept or
\* for a write to finish can take its next step (and so can get its own
\* chunk into transcription at the same time).
C18_TranscriptionsRunConcurrently ==
  \A c, d \in Conns :
    (/\ c # d
     /\ inflight[c] > 0
     /\ pc[d] \in {"accept", "pong", "ack", "send_transcript", "send_error"}) =>
      ENABLED HandlerResumes(d)

\* C20: whatever sub-segments the engine gave, and also when it raised,
\* the confidence transcribe_chunk returns lies between 0.0 and 1.0
\* (Scale); when the loop over the sub-segments ended, it is 1.0 for a mean
\* log-probability of 0.0 or above, and below 1.0 for a negative mean.
C20_ConfidenceIsClamped ==
  /\ tc.st \in {"returned", "failed"} => (0 <= tc.conf /\ tc.conf <= Scale)
  /\ tc.st = "returned" =>
       /\ (Len(tc.segs) > 0 /\ SumLogProb(tc.segs) >= 0) => tc.conf = Scale
       /\ (Len(tc.segs) > 0 /\ SumLogProb(tc.segs) < 0) => tc.conf < Scale

\* A call has returned for two sub-segments whose mean log-probability is
\* positive, and the confidence is 1.0.
C20_Witness ==
  /\ tc.st = "returned"
  /\ Len(tc.segs) = 2
  /\ SumLogProb(tc.segs) > 0
  /\ tc.conf = Scale

\* C21 as claimed: a broadcast during whose sweep another coroutine has
\* connected or disconnected a client does not raise, and every connection
\* that was registered at the call and still is when the call is over, with
\* its client there, was written to.
C21_BroadcastSurvivesRegistryChange ==
  \A t \in Tasks :
    (task[t].op = "broadcast" /\ Finished(t) /\ task[t].mut) =>
      /\ task[t].st = "returned"
      /\ \A c \in task[t].snap \cap ActiveKeys :
           alive[c] => c \in Range(task[t].delivered)

\* The handler of c is in its receive loop (lines 103-118), reading or
\* working on a message.
InReceiveLoop(c) ==
  pc[c] \in {"recv", "pong", "ack", "transcribe", "send_transcript", "send_error"}

\* C22 as claimed: after every step, a connection whose handler is in its
\* receive loop is a key of active_connections; and a handler whose
\* connection was removed from active_connections reads no further message
\* and writes none.
C22_ActiveHandlerIsRegistered ==
  [][\A c \in Conns :
       /\ InReceiveLoop(c)' => client_id'[c] \in KeysOf(acEntries')
       /\ (InReceiveLoop(c) /\ client_id[c] \notin ActiveKeys) => log'[c] = log[c]
    ]_vars

\* The transport of c has failed under its handler: the client is gone
\* while the handler is in accept, in a read or in a write, or will be.
TransportFailed(c) == ~alive[c] /\ pc[c] \notin {"init", "done"}

\* C23: a handler whose transport has failed ends; the step that ends a
\* handler, for whatever reason, leaves its connection no key of
\* active_connections and no member of a session set; and the step that
\* ends it on a failed accept leaves active_connections as it was.
C23_FailedTransportEndsHandler ==
  /\ [][\A c \in Conns :
          (pc[c] # "done" /\ pc'[c] = "done") =>
            /\ client_id[c] \notin KeysOf(acEntries')
            /\ handle'[client_id[c]] = None
            /\ \A s \in DOMAIN session_clients' : client_id[c] \notin session_clients'[s]
            /\ pc[c] = "accept" => (acEntries' = acEntries /\ handle' = handle)
       ]_vars
  /\ \A c \in Conns : TransportFailed(c) ~> (pc[c] = "done")

\* A handler has ended after the write of a transcript failed: its
\* connection is gone from the registry and from the session, which exists.
C23_Witness ==
  \E c \in Conns :
    /\ pc[c] = "done"
    /\ \E i \in 1..Len(log[c]) : log[c][i].ev = "transcript_failed"
    /\ c \notin ActiveKeys
    /\ Room \in DOMAIN session_clients
    /\ c \notin session_clients[Room]

\* The engine call for the chunk that c's handler holds returned to the
\* handler (line 168 did not raise).
TranscriptionReturned(c) ==
  \E i \in 1..Len(log[c]) :
    /\ log[c][i].ev \in {"engine_returned", "engine_failed"}
    /\ log[c][i].id = cur[c].chunkId

\* C24: the handler writes an error message for a chunk only when the
\* transcription call of that chunk did not return: while the write of
\* lines 192-196 is under way, no engine call has returned for the chunk.
C24_ErrorOnlyForFailedTranscription ==
  \A c \in Conns : pc[c] = "send_error" => ~TranscriptionReturned(c)

\* Messages of kind ev that reached the client of c for chunk k.
WrittenFor(c, ev, k) ==
  {i \in 1..Len(log[c]) : log[c][i].ev = ev /\ log[c][i].id = k}

\* What reaches the client: at most one of transcript and error per chunk.
AtMostOneAnswer ==
  \A c \in Conns : \A k \in 1..MaxMsgs :
    Cardinality(WrittenFor(c, "transcript", k)) + Cardinality(WrittenFor(c, "error", k)) <= 1

\* C25: no dangling membership: every client id in a session set of
\* session_clients is a key of active_connections.
C25_MembersAreRegistered ==
  \A s \in DOMAIN session_clients : session_clients[s] \subseteq ActiveKeys

====
